---- MODULE Spec2Model ----
(***************************************************************************)
(* Session context resolution (POST /org/self), the Redis-backed context   *)
(* store, the resource handlers that read the context and proxy one call   *)
(* to the Mist API, and the NMS / deployment-context profile handlers.     *)
(*                                                                         *)
(* Handlers are asyncio coroutines.  A handler runs without interruption   *)
(* by other handlers of the same worker process until it reaches an await  *)
(* (its single upstream call) or returns; handlers of different worker     *)
(* processes interleave at single Redis commands.                          *)
(***************************************************************************)
EXTENDS Integers, Sequences, FiniteSets, TLC

VARIABLES
    store,      \* Redis: key -> string value, or None when the key is absent
    h,          \* per handler slot: the running handler's position and locals
    workerOf,   \* handler slot -> worker process (fixed by the deployment)
    loop,       \* worker process -> slot holding its event loop, or NoProc
    redisUp     \* whether the Redis server can be reached

vars == <<store, h, workerOf, loop, redisUp>>

-----------------------------------------------------------------------------
(* Bounds *)

MaxPriv == 3        \* longest privilege list in an upstream /self response
MaxPrivNms == 1     \* the same, in the specification that adds the NMS handlers
MaxCmds == 4        \* longest command sequence of a direct RedisClient user

-----------------------------------------------------------------------------
(* Values *)

None == "<None>"            \* Python None / absent Redis key
Omitted == "<omitted>"      \* request field left out by the caller
NoProc == "<noproc>"

Truthy(v) == v /= None /\ v /= ""

API_HOST == "api_host"
ORG_ID == "org_id"
NMS_KEY == "nms_profile"
CONTEXT_KEY == "deployment_context"
Keys == {API_HOST, ORG_ID, NMS_KEY, CONTEXT_KEY}

DefaultApiHost == "api.ac2.mist.com"
HostInputs == {Omitted, "", "api.eu.mist.com"}
OrgIds == {"A", "B", "C"}
OrgInputs == {Omitted, "", "A", "B"}

\* A privilege of the /self payload; org_id is None when the entry has none.
\* Only the org_id of org-scoped entries is ever read.
Privilege == [scope : {"org"}, org_id : OrgIds \cup {None}]
                \cup [scope : {"site"}, org_id : {"B"}]
NonePriv == [scope |-> None, org_id |-> None]

RECURSIVE SeqsUpTo(_, _)
SeqsUpTo(S, n) ==
    IF n = 0 THEN {<<>>}
    ELSE LET shorter == SeqsUpTo(S, n - 1)
         IN  shorter \cup {Append(s, e) : s \in {t \in shorter : Len(t) = n - 1}, e \in S}

Procs == {"p1", "p2"}
Workers == {"w1", "w2"}

-----------------------------------------------------------------------------
(* Redis client *)

\* Every command either completes or, when the server cannot be reached,
\* raises redis.ConnectionError; the client methods catch nothing.

\* Mutant of RedisGet: the connection error is swallowed, as ping() does.
RedisGetSwallowsError(s, key, up) ==
    [raised |-> FALSE, value |-> IF up THEN s[key] ELSE None]

\* RedisClient.get: the stored string, None for an absent key.
RedisGet(s, key, up) ==
    IF up THEN [raised |-> FALSE, value |-> s[key]]
    ELSE [raised |-> TRUE, value |-> None]

\* Mutant of RedisSet: SET ... NX, the key is written only when absent.
RedisSetIfAbsent(s, key, value, up) ==
    IF up THEN [raised |-> FALSE,
                store |-> IF s[key] = None THEN [s EXCEPT ![key] = value] ELSE s]
    ELSE [raised |-> TRUE, store |-> s]

\* RedisClient.set without expire: unconditional overwrite of one key.
RedisSet(s, key, value, up) ==
    IF up THEN [raised |-> FALSE, store |-> [s EXCEPT ![key] = value]]
    ELSE [raised |-> TRUE, store |-> s]

\* RedisClient.delete: unconditional removal of one key; returns the number
\* of keys removed.
RedisDelete(s, key, up) ==
    IF up THEN [raised |-> FALSE, store |-> [s EXCEPT ![key] = None],
                removed |-> IF s[key] = None THEN 0 ELSE 1]
    ELSE [raised |-> TRUE, store |-> s, removed |-> 0]

get_api_host(s, up) == RedisGet(s, API_HOST, up)
\* Mutant of get_org_id: the api_host key is read.
get_org_id_wrong_key(s, up) == RedisGet(s, API_HOST, up)

get_org_id(s, up) == RedisGet(s, ORG_ID, up)

-----------------------------------------------------------------------------
(* Upstream call through MistEngine *)

HttpStatuses == {200, 404, 500}
TransportKinds == {"refused", "timeout"}
NoBody == "<nobody>"
NoWire == [kind |-> "none", status |-> 0, body |-> NoBody]

\* What comes back on the wire for one request.
HttpWire(status, body) == [kind |-> "http", status |-> status, body |-> body]
TransportWire(kind) == [kind |-> kind, status |-> 0, body |-> NoBody]

\* MistEngine.<verb>: one request, result normalised into three outcomes.
MistEngineCall(w) ==
    IF w.kind = "http"
    THEN IF w.status >= 200 /\ w.status <= 299
         THEN [outcome |-> "ok", status |-> w.status, body |-> w.body]
         ELSE [outcome |-> "UpstreamRejected", status |-> w.status, body |-> w.body]
    ELSE [outcome |-> "TransportFailure", status |-> 0, body |-> NoBody]

-----------------------------------------------------------------------------
(* Handler slots *)

NoReq == [api_host |-> None, org_id |-> None]

\* given: the request fields as the caller sent them; log: the commands a
\* direct user of RedisClient has issued, with what each returned.
Idle == [op |-> "none", pc |-> "idle", given |-> NoReq, req |-> NoReq, log |-> <<>>,
         api_host |-> None, org_id |-> None, scanned |-> FALSE, result |-> NoBody,
         sent |-> <<>>, wrote |-> <<>>, wire |-> NoWire,
         outcome |-> "none", status |-> 0, ret |-> NoBody]

Free(p) == h[p].pc \in {"idle", "done"}

\* The slot may take a step: its worker's event loop is free or already its own.
CanRun(p) == loop[workerOf[p]] \in {NoProc, p}

\* Mutant of LoopAfter: every step hands the event loop back.
LoopAfterYields(p, pc) == [loop EXCEPT ![workerOf[p]] = NoProc]

\* After a step the loop stays with the handler unless it awaits or has ended.
LoopAfter(p, pc) ==
    [loop EXCEPT ![workerOf[p]] = IF pc \in {"await", "done", "idle"} THEN NoProc ELSE p]

Finish(rec, outcome, status, ret) ==
    [rec EXCEPT !.pc = "done", !.outcome = outcome, !.status = status, !.ret = ret]

\* redis.ConnectionError raised by a Redis command leaves the handler uncaught.
RaiseStoreUnavailable(rec) == Finish(rec, "StoreUnavailable", 500, NoBody)

-----------------------------------------------------------------------------
(* POST /org/self *)

\* Mutant of SelfRequest: the global endpoint as the default host.
SelfRequestGlobalDefault(api_host, org_id) ==
    [api_host |-> IF api_host = Omitted THEN "api.mist.com" ELSE api_host,
     org_id   |-> IF org_id = Omitted THEN None ELSE org_id]

\* SelfRequest: field defaults applied to what the caller sent.
SelfRequest(api_host, org_id) ==
    [api_host |-> IF api_host = Omitted THEN DefaultApiHost ELSE api_host,
     org_id   |-> IF org_id = Omitted THEN None ELSE org_id]

Max(S) == CHOOSE x \in S : \A y \in S : y <= x
Min(S) == CHOOSE x \in S : \A y \in S : x <= y

\* Mutant of findlast: the first match (fnc.find) in place of the last.
findfirst(privileges) ==
    LET hits == {i \in 1..Len(privileges) : privileges[i].scope = "org"}
    IN  IF hits = {} THEN NonePriv ELSE privileges[Min(hits)]

\* Mutant of findlast: the last org-scoped privilege that carries an org_id.
findlast_with_org_id(privileges) ==
    LET hits == {i \in 1..Len(privileges) :
                    privileges[i].scope = "org" /\ Truthy(privileges[i].org_id)}
    IN  IF hits = {} THEN NonePriv ELSE privileges[Max(hits)]

\* fnc.findlast({"scope": "org"}, privileges)
findlast(privileges) ==
    LET hits == {i \in 1..Len(privileges) : privileges[i].scope = "org"}
    IN  IF hits = {} THEN NonePriv ELSE privileges[Max(hits)]

\* Mutant of ResolveOrgId: the privileges take precedence over the provided value.
ResolveOrgIdPrivilegesFirst(request_org_id, result) ==
    LET org_priv == findlast(result.privileges)
    IN  [org_id |-> IF org_priv /= NonePriv /\ Truthy(org_priv.org_id)
                    THEN org_priv.org_id ELSE request_org_id,
         scanned |-> TRUE]

\* Mutant of ResolveOrgId: a default organization when none is resolved.
ResolveOrgIdDefault(request_org_id, result) ==
    IF Truthy(request_org_id)
    THEN [org_id |-> request_org_id, scanned |-> FALSE]
    ELSE LET org_priv == findlast(result.privileges)
         IN  [org_id |-> IF org_priv /= NonePriv THEN org_priv.org_id ELSE "A",
              scanned |-> TRUE]

\* Mutant of ResolveOrgId: only a missing org_id counts as not provided.
ResolveOrgIdIsNone(request_org_id, result) ==
    IF request_org_id /= None
    THEN [org_id |-> request_org_id, scanned |-> FALSE]
    ELSE LET org_priv == findlast(result.privileges)
         IN  [org_id |-> IF org_priv /= NonePriv THEN org_priv.org_id ELSE request_org_id,
              scanned |-> TRUE]

\* get_self, org_id determination: the provided value, else the org_id of the
\* last org-scoped privilege.  scanned tells whether the privileges were read.
ResolveOrgId(request_org_id, result) ==
    IF Truthy(request_org_id)
    THEN [org_id |-> request_org_id, scanned |-> FALSE]
    ELSE LET org_priv == findlast(result.privileges)
         IN  [org_id |-> IF org_priv /= NonePriv THEN org_priv.org_id ELSE request_org_id,
              scanned |-> TRUE]

\* Mutant of SelfStart: api_host is committed before the upstream call.
SelfStartSavesHost(p, api_host, org_id) ==
    /\ Free(p) /\ CanRun(p)
    /\ LET request == SelfRequest(api_host, org_id)
           set == RedisSet(store, API_HOST, request.api_host, redisUp)
       IN  /\ store' = set.store
           /\ h' = [h EXCEPT ![p] = [Idle EXCEPT
                    !.op = "get_self", !.pc = "await", !.req = request,
                    !.given = [api_host |-> api_host, org_id |-> org_id],
                    !.sent = <<[host |-> request.api_host, path |-> "/api/v1/self",
                                org |-> None]>>]]
    /\ loop' = LoopAfter(p, "await")
    /\ UNCHANGED <<workerOf, redisUp>>

\* get_self up to its await: build the engine for the requested host and
\* issue GET /api/v1/self.
SelfStart(p, api_host, org_id) ==
    /\ Free(p) /\ CanRun(p)
    /\ LET request == SelfRequest(api_host, org_id)
       IN  h' = [h EXCEPT ![p] = [Idle EXCEPT
                    !.op = "get_self", !.pc = "await", !.req = request,
                    !.given = [api_host |-> api_host, org_id |-> org_id],
                    !.sent = <<[host |-> request.api_host, path |-> "/api/v1/self",
                                org |-> None]>>]]
    /\ loop' = LoopAfter(p, "await")
    /\ UNCHANGED <<store, workerOf, redisUp>>

\* Mutant of SelfFail: api_host is saved although the call raised.
SelfFailSavesHost(p, w) ==
    /\ h[p].op = "get_self" /\ h[p].pc = "await" /\ CanRun(p)
    /\ LET r == MistEngineCall(w)
           set == RedisSet(store, API_HOST, h[p].req.api_host, redisUp)
       IN  /\ r.outcome /= "ok"
           /\ store' = set.store
           /\ h' = [h EXCEPT ![p] = Finish([@ EXCEPT !.wire = w], r.outcome, r.status, NoBody)]
    /\ loop' = LoopAfter(p, "done")
    /\ UNCHANGED <<workerOf, redisUp>>

\* get_self when the awaited call raises: the exception leaves the handler.
SelfFail(p, w) ==
    /\ h[p].op = "get_self" /\ h[p].pc = "await" /\ CanRun(p)
    /\ LET r == MistEngineCall(w)
       IN  /\ r.outcome /= "ok"
           /\ h' = [h EXCEPT ![p] = Finish([@ EXCEPT !.wire = w], r.outcome, r.status, NoBody)]
    /\ loop' = LoopAfter(p, "done")
    /\ UNCHANGED <<store, workerOf, redisUp>>

\* Mutant of SelfResponse: api_host and org_id are written in one transaction.
SelfResponseTransaction(p, w) ==
    /\ h[p].op = "get_self" /\ h[p].pc = "await" /\ CanRun(p)
    /\ LET r == MistEngineCall(w)
           result == r.body
           request == h[p].req
           resolved == ResolveOrgId(request.org_id, result)
           org_id == resolved.org_id
           rec == [h[p] EXCEPT !.wire = w, !.org_id = org_id, !.scanned = resolved.scanned,
                               !.result = result]
           set == RedisSet(store, API_HOST, request.api_host, redisUp)
           both == IF Truthy(org_id) THEN RedisSet(set.store, ORG_ID, org_id, redisUp) ELSE set
           rec2 == IF set.raised THEN RaiseStoreUnavailable(rec)
                   ELSE Finish([rec EXCEPT !.wrote = IF Truthy(org_id) THEN <<API_HOST, ORG_ID>>
                                                     ELSE <<API_HOST>>], "ok", 200, result)
       IN  /\ r.outcome = "ok"
           /\ store' = both.store
           /\ h' = [h EXCEPT ![p] = rec2]
           /\ loop' = LoopAfter(p, rec2.pc)
    /\ UNCHANGED <<workerOf, redisUp>>

\* Mutant of SelfResponse: the handler yields to the event loop between its
\* two writes (an awaited Redis client).
SelfResponseYields(p, w) ==
    /\ h[p].op = "get_self" /\ h[p].pc = "await" /\ CanRun(p)
    /\ LET r == MistEngineCall(w)
           result == r.body
           request == h[p].req
           resolved == ResolveOrgId(request.org_id, result)
           org_id == resolved.org_id
           rec == [h[p] EXCEPT !.wire = w, !.org_id = org_id, !.scanned = resolved.scanned,
                               !.result = result]
           set == RedisSet(store, API_HOST, request.api_host, redisUp)
           rec2 == IF set.raised THEN RaiseStoreUnavailable(rec)
                   ELSE IF Truthy(org_id)
                        THEN [rec EXCEPT !.pc = "set_org", !.wrote = <<API_HOST>>]
                        ELSE Finish([rec EXCEPT !.wrote = <<API_HOST>>], "ok", 200, result)
       IN  /\ r.outcome = "ok"
           /\ store' = set.store
           /\ h' = [h EXCEPT ![p] = rec2]
           /\ loop' = LoopAfter(p, "await")
    /\ UNCHANGED <<workerOf, redisUp>>

\* get_self from the upstream response through redis_client.set("api_host").
SelfResponse(p, w) ==
    /\ h[p].op = "get_self" /\ h[p].pc = "await" /\ CanRun(p)
    /\ LET r == MistEngineCall(w)
           result == r.body
           request == h[p].req
           resolved == ResolveOrgId(request.org_id, result)
           org_id == resolved.org_id
           rec == [h[p] EXCEPT !.wire = w, !.org_id = org_id, !.scanned = resolved.scanned,
                               !.result = result]
           set == RedisSet(store, API_HOST, request.api_host, redisUp)
           rec2 == IF set.raised THEN RaiseStoreUnavailable(rec)
                   ELSE IF Truthy(org_id)
                        THEN [rec EXCEPT !.pc = "set_org", !.wrote = <<API_HOST>>]
                        ELSE Finish([rec EXCEPT !.wrote = <<API_HOST>>], "ok", 200, result)
       IN  /\ r.outcome = "ok"
           /\ store' = set.store
           /\ h' = [h EXCEPT ![p] = rec2]
           /\ loop' = LoopAfter(p, rec2.pc)
    /\ UNCHANGED <<workerOf, redisUp>>

\* Mutant of SelfSetOrg: the resolved org_id is added to the returned payload.
SelfSetOrgReturnsResolved(p) ==
    /\ h[p].op = "get_self" /\ h[p].pc = "set_org" /\ CanRun(p)
    /\ LET set == RedisSet(store, ORG_ID, h[p].org_id, redisUp)
       IN  /\ store' = set.store
           /\ h' = [h EXCEPT ![p] =
                     IF set.raised THEN RaiseStoreUnavailable(@)
                     ELSE Finish([@ EXCEPT !.wrote = Append(@, ORG_ID)], "ok", 200,
                                 [privileges |-> @.result.privileges, org_id |-> @.org_id])]
    /\ loop' = LoopAfter(p, "done")
    /\ UNCHANGED <<workerOf, redisUp>>

\* get_self: redis_client.set("org_id", org_id) and return result.
SelfSetOrg(p) ==
    /\ h[p].op = "get_self" /\ h[p].pc = "set_org" /\ CanRun(p)
    /\ LET set == RedisSet(store, ORG_ID, h[p].org_id, redisUp)
       IN  /\ store' = set.store
           /\ h' = [h EXCEPT ![p] =
                     IF set.raised THEN RaiseStoreUnavailable(@)
                     ELSE Finish([@ EXCEPT !.wrote = Append(@, ORG_ID)], "ok", 200, @.result)]
    /\ loop' = LoopAfter(p, "done")
    /\ UNCHANGED <<workerOf, redisUp>>

\* 2xx answers to GET /api/v1/self with privilege lists of at most n entries.
SelfWires(n) == {HttpWire(200, [privileges |-> ps]) : ps \in SeqsUpTo(Privilege, n)}
FailWires == {HttpWire(s, "detail") : s \in HttpStatuses \ {200}}
                \cup {TransportWire(k) : k \in TransportKinds}

-----------------------------------------------------------------------------
(* Resource handlers: sites, networks, applications, hub profiles, inventory *)

SiteScopedOps == {"get_site", "update_site", "delete_site"}
OrgScopedOps ==
    {"list_sites", "create_site",
     "list_networks", "create_network", "get_network", "update_network", "delete_network",
     "list_apps", "create_app", "get_app", "update_app", "delete_app",
     "list_hub_profiles", "create_hub_profile", "get_hub_profile",
     "update_hub_profile", "delete_hub_profile",
     "list_inventory", "get_device", "assign_devices", "claim_devices", "unassign_devices"}
ResourceOps == SiteScopedOps \cup OrgScopedOps

\* The URL template each handler formats (org_id substituted by the handler).
PathOf(op) ==
    CASE op \in {"list_sites", "create_site"} -> "/api/v1/orgs/{org_id}/sites"
      [] op \in SiteScopedOps -> "/api/v1/sites/{site_id}"
      [] op \in {"list_networks", "create_network"} -> "/api/v1/orgs/{org_id}/networks"
      [] op \in {"get_network", "update_network", "delete_network"}
            -> "/api/v1/orgs/{org_id}/networks/{network_id}"
      [] op \in {"list_apps", "create_app"} -> "/api/v1/orgs/{org_id}/services"
      [] op \in {"get_app", "update_app", "delete_app"}
            -> "/api/v1/orgs/{org_id}/services/{app_id}"
      [] op \in {"list_hub_profiles", "create_hub_profile"} -> "/api/v1/orgs/{org_id}/hubprofiles"
      [] op \in {"get_hub_profile", "update_hub_profile", "delete_hub_profile"}
            -> "/api/v1/orgs/{org_id}/hubprofiles/{hubprofile_id}"
      [] OTHER -> "/api/v1/orgs/{org_id}/inventory"

\* Mutant of GuardFails: `is None` tests in place of truthiness.
GuardFailsNoneOnly(op, api_host, org_id) ==
    IF op \in SiteScopedOps THEN api_host = None
    ELSE api_host = None \/ org_id = None

\* Mutant of GuardFails: every handler requires both fields.
GuardFailsEitherMissing(op, api_host, org_id) == ~Truthy(api_host) \/ ~Truthy(org_id)

\* Mutant of GuardFails: every handler tests api_host alone.
GuardFailsHostOnly(op, api_host, org_id) == ~Truthy(api_host)

\* The handlers' guard: `if not api_host` in the site-scoped handlers,
\* `if not api_host or not org_id` in all others.
GuardFails(op, api_host, org_id) ==
    IF op \in SiteScopedOps THEN ~Truthy(api_host)
    ELSE ~Truthy(api_host) \/ ~Truthy(org_id)

\* raise HTTPException(status_code=400, detail="Missing api_host ...")
RaiseContextMissing(rec) == Finish(rec, "ContextMissing", 400, NoBody)

\* engine = MistEngine(host=api_host); await engine.<verb>(path)
IssueCall(rec) ==
    [rec EXCEPT !.pc = "await",
                !.sent = Append(@, [host |-> rec.api_host, path |-> PathOf(rec.op),
                                    org |-> rec.org_id])]

\* Guard, then either the 400 or the upstream call.
GuardThenCall(rec) ==
    IF GuardFails(rec.op, rec.api_host, rec.org_id)
    THEN RaiseContextMissing(rec)
    ELSE IssueCall(rec)

\* Handler entry: get_api_host(); the site-scoped handlers go on to the guard.
OpStart(p, op) ==
    /\ Free(p) /\ CanRun(p)
    /\ op \in ResourceOps
    /\ LET rec0 == [Idle EXCEPT !.op = op]
           got == get_api_host(store, redisUp)
           rec1 == [rec0 EXCEPT !.api_host = got.value]
           rec2 == IF got.raised THEN RaiseStoreUnavailable(rec0)
                   ELSE IF op \in SiteScopedOps THEN GuardThenCall(rec1)
                   ELSE [rec1 EXCEPT !.pc = "read_org"]
       IN  /\ h' = [h EXCEPT ![p] = rec2]
           /\ loop' = LoopAfter(p, rec2.pc)
    /\ UNCHANGED <<store, workerOf, redisUp>>

\* Org-scoped handlers: get_org_id(), then the guard.
OpReadOrg(p) ==
    /\ h[p].op \in OrgScopedOps /\ h[p].pc = "read_org" /\ CanRun(p)
    /\ LET got == get_org_id(store, redisUp)
           rec1 == [h[p] EXCEPT !.org_id = got.value]
           rec2 == IF got.raised THEN RaiseStoreUnavailable(h[p]) ELSE GuardThenCall(rec1)
       IN  /\ h' = [h EXCEPT ![p] = rec2]
           /\ loop' = LoopAfter(p, rec2.pc)
    /\ UNCHANGED <<store, workerOf, redisUp>>

\* Mutant of OpResponse: every engine exception is caught and reported as a
\* transport failure.
OpResponseCatchAll(p, w) ==
    /\ h[p].op \in ResourceOps /\ h[p].pc = "await" /\ CanRun(p)
    /\ LET r == MistEngineCall(w)
       IN  h' = [h EXCEPT ![p] =
                    IF r.outcome = "ok"
                    THEN Finish([@ EXCEPT !.wire = w], "ok", r.status, r.body)
                    ELSE Finish([@ EXCEPT !.wire = w], "TransportFailure", 0, NoBody)]
    /\ loop' = LoopAfter(p, "done")
    /\ UNCHANGED <<store, workerOf, redisUp>>

\* Mutant of OpResponse: a failed call is issued once more.
OpResponseRetry(p, w) ==
    /\ h[p].op \in ResourceOps /\ h[p].pc = "await" /\ CanRun(p)
    /\ LET r == MistEngineCall(w)
       IN  h' = [h EXCEPT ![p] =
                    IF r.outcome = "ok" \/ Len(@.sent) > 1
                    THEN Finish([@ EXCEPT !.wire = w], r.outcome, r.status,
                                IF r.outcome = "ok" THEN r.body ELSE NoBody)
                    ELSE IssueCall([@ EXCEPT !.wire = w])]
    /\ loop' = LoopAfter(p, "done")
    /\ UNCHANGED <<store, workerOf, redisUp>>

\* Mutant of OpResponse: after a transport failure the handler waits for the
\* answer again.
OpResponseWaitsAgain(p, w) ==
    /\ h[p].op \in ResourceOps /\ h[p].pc = "await" /\ CanRun(p)
    /\ LET r == MistEngineCall(w)
       IN  h' = [h EXCEPT ![p] =
                    IF r.outcome = "TransportFailure" THEN [@ EXCEPT !.wire = w]
                    ELSE Finish([@ EXCEPT !.wire = w], r.outcome, r.status,
                                IF r.outcome = "ok" THEN r.body ELSE NoBody)]
    /\ loop' = LoopAfter(p, "done")
    /\ UNCHANGED <<store, workerOf, redisUp>>

\* Mutant of OpResponse: the context is read again when the call completes.
OpResponseRereads(p, w) ==
    /\ h[p].op \in ResourceOps /\ h[p].pc = "await" /\ CanRun(p)
    /\ LET r == MistEngineCall(w)
       IN  h' = [h EXCEPT ![p] = Finish([@ EXCEPT !.wire = w,
                                                  !.api_host = get_api_host(store, redisUp).value],
                                        r.outcome, r.status,
                                        IF r.outcome = "ok" THEN r.body ELSE NoBody)]
    /\ loop' = LoopAfter(p, "done")
    /\ UNCHANGED <<store, workerOf, redisUp>>

\* The awaited engine call completes: the decoded body is shaped into the
\* response, an engine exception leaves the handler uncaught.
OpResponse(p, w) ==
    /\ h[p].op \in ResourceOps /\ h[p].pc = "await" /\ CanRun(p)
    /\ LET r == MistEngineCall(w)
       IN  h' = [h EXCEPT ![p] = Finish([@ EXCEPT !.wire = w], r.outcome, r.status,
                                        IF r.outcome = "ok" THEN r.body ELSE NoBody)]
    /\ loop' = LoopAfter(p, "done")
    /\ UNCHANGED <<store, workerOf, redisUp>>

ResourceWires == {HttpWire(s, IF s = 200 THEN "json" ELSE "detail") : s \in HttpStatuses}
                    \cup {TransportWire(k) : k \in TransportKinds}

-----------------------------------------------------------------------------
(* NMS profile handlers *)

NmsOps == {"set_profile", "get_profile", "delete_profile"}

Profiles == {[ssr1_mac |-> "020001263c58", mgmt_vlan |-> 3623],
             [ssr1_mac |-> None, mgmt_vlan |-> 3666]}

\* DeploymentProfile.model_dump_json()
model_dump_json(profile) ==
    CASE profile = [ssr1_mac |-> "020001263c58", mgmt_vlan |-> 3623]
            -> "{\"ssr1_mac\":\"020001263c58\",\"mgmt_vlan\":3623}"
      [] profile = [ssr1_mac |-> None, mgmt_vlan |-> 3666]
            -> "{\"ssr1_mac\":null,\"mgmt_vlan\":3666}"

\* DeploymentProfile.model_validate_json(data)
model_validate_json(data) ==
    CASE data = "{\"ssr1_mac\":\"020001263c58\",\"mgmt_vlan\":3623}"
            -> [ssr1_mac |-> "020001263c58", mgmt_vlan |-> 3623]
      [] data = "{\"ssr1_mac\":null,\"mgmt_vlan\":3666}"
            -> [ssr1_mac |-> None, mgmt_vlan |-> 3666]

\* POST /nms/
set_profile(p, profile) ==
    /\ Free(p) /\ CanRun(p)
    /\ LET rec == [Idle EXCEPT !.op = "set_profile", !.given = profile]
           set == RedisSet(store, NMS_KEY, model_dump_json(profile), redisUp)
       IN  /\ store' = set.store
           /\ h' = [h EXCEPT ![p] =
                     IF set.raised THEN RaiseStoreUnavailable(rec)
                     ELSE Finish([rec EXCEPT !.wrote = <<NMS_KEY>>], "ok", 200,
                                 [status |-> "saved", profile |-> profile])]
    /\ loop' = LoopAfter(p, "done")
    /\ UNCHANGED <<workerOf, redisUp>>

\* Mutant of get_profile: a missing profile is answered with a default one.
get_profile_or_default(p) ==
    /\ Free(p) /\ CanRun(p)
    /\ LET rec == [Idle EXCEPT !.op = "get_profile"]
           got == RedisGet(store, NMS_KEY, redisUp)
       IN  h' = [h EXCEPT ![p] =
                    IF got.raised THEN RaiseStoreUnavailable(rec)
                    ELSE Finish(rec, "ok", 200,
                                [profile |-> IF Truthy(got.value) THEN model_validate_json(got.value)
                                             ELSE [ssr1_mac |-> None, mgmt_vlan |-> 3666],
                                 status |-> "found"])]
    /\ loop' = LoopAfter(p, "done")
    /\ UNCHANGED <<store, workerOf, redisUp>>

\* GET /nms/
get_profile(p) ==
    /\ Free(p) /\ CanRun(p)
    /\ LET rec == [Idle EXCEPT !.op = "get_profile"]
           got == RedisGet(store, NMS_KEY, redisUp)
       IN  h' = [h EXCEPT ![p] =
                    IF got.raised THEN RaiseStoreUnavailable(rec)
                    ELSE IF ~Truthy(got.value) THEN Finish(rec, "NotFound", 404, NoBody)
                    ELSE Finish(rec, "ok", 200,
                                [profile |-> model_validate_json(got.value),
                                 status |-> "found"])]
    /\ loop' = LoopAfter(p, "done")
    /\ UNCHANGED <<store, workerOf, redisUp>>

\* Mutant of delete_profile: the session keys are removed with the profile.
delete_profile_and_session(p) ==
    /\ Free(p) /\ CanRun(p)
    /\ LET rec == [Idle EXCEPT !.op = "delete_profile"]
           del == RedisDelete(store, NMS_KEY, redisUp)
       IN  /\ store' = [del.store EXCEPT ![API_HOST] = IF del.raised THEN @ ELSE None,
                                         ![ORG_ID] = IF del.raised THEN @ ELSE None]
           /\ h' = [h EXCEPT ![p] =
                     IF del.raised THEN RaiseStoreUnavailable(rec)
                     ELSE Finish([rec EXCEPT !.wrote = <<NMS_KEY>>], "ok", 200, [status |-> "deleted"])]
    /\ loop' = LoopAfter(p, "done")
    /\ UNCHANGED <<workerOf, redisUp>>

\* Mutant of delete_profile: a profile that is not there is reported as 404
\* and no delete is issued.
delete_profile_if_present(p) ==
    /\ Free(p) /\ CanRun(p)
    /\ LET rec == [Idle EXCEPT !.op = "delete_profile"]
           got == RedisGet(store, NMS_KEY, redisUp)
           del == RedisDelete(store, NMS_KEY, redisUp)
       IN  /\ store' = del.store
           /\ h' = [h EXCEPT ![p] =
                     IF del.raised THEN RaiseStoreUnavailable(rec)
                     ELSE IF ~Truthy(got.value) THEN Finish(rec, "NotFound", 404, NoBody)
                     ELSE Finish([rec EXCEPT !.wrote = <<NMS_KEY>>], "ok", 200,
                                 [status |-> "deleted"])]
    /\ loop' = LoopAfter(p, "done")
    /\ UNCHANGED <<workerOf, redisUp>>

\* DELETE /nms/
delete_profile(p) ==
    /\ Free(p) /\ CanRun(p)
    /\ LET rec == [Idle EXCEPT !.op = "delete_profile"]
           del == RedisDelete(store, NMS_KEY, redisUp)
       IN  /\ store' = del.store
           /\ h' = [h EXCEPT ![p] =
                     IF del.raised THEN RaiseStoreUnavailable(rec)
                     ELSE Finish([rec EXCEPT !.wrote = <<NMS_KEY>>], "ok", 200, [status |-> "deleted"])]
    /\ loop' = LoopAfter(p, "done")
    /\ UNCHANGED <<workerOf, redisUp>>

-----------------------------------------------------------------------------
(* GET / *)

\* redirect_to_docs: RedirectResponse(url="/docs"), a 307 with a Location
\* header and no body.
redirect_to_docs(p) ==
    /\ Free(p) /\ CanRun(p)
    /\ h' = [h EXCEPT ![p] = Finish([Idle EXCEPT !.op = "redirect_to_docs"], "ok", 307,
                                    [location |-> "/docs"])]
    /\ loop' = LoopAfter(p, "done")
    /\ UNCHANGED <<store, workerOf, redisUp>>

-----------------------------------------------------------------------------
(* Direct use of RedisClient *)

StoreKeys == {API_HOST, ORG_ID}
StoreValues == {"", "v"}

ClientRec(p, entry) ==
    [Idle EXCEPT !.op = "client", !.pc = "done", !.log = Append(h[p].log, entry),
                 !.outcome = "ok"]

ClientReady(p) ==
    /\ h[p].op \in {"none", "client"} /\ Free(p) /\ CanRun(p)
    /\ Len(h[p].log) < MaxCmds

\* redis.ConnectionError reaches the user; the command had no effect.
Raised(key) == [cmd |-> "raised", key |-> key, value |-> None, ret |-> "ConnectionError"]

\* get_redis_client().set(key, value)
ClientSet(p, key, value) ==
    /\ ClientReady(p)
    /\ LET set == RedisSet(store, key, value, redisUp)
       IN  /\ store' = set.store
           /\ h' = [h EXCEPT ![p] =
                     ClientRec(p, IF set.raised THEN Raised(key)
                                  ELSE [cmd |-> "set", key |-> key, value |-> value,
                                        ret |-> "True"])]
    /\ loop' = LoopAfter(p, "done")
    /\ UNCHANGED <<workerOf, redisUp>>

\* get_redis_client().get(key)
ClientGet(p, key) ==
    /\ ClientReady(p)
    /\ LET got == RedisGet(store, key, redisUp)
       IN  h' = [h EXCEPT ![p] =
                    ClientRec(p, IF got.raised THEN Raised(key)
                                 ELSE [cmd |-> "get", key |-> key, value |-> None,
                                       ret |-> got.value])]
    /\ loop' = LoopAfter(p, "done")
    /\ UNCHANGED <<store, workerOf, redisUp>>

\* get_redis_client().delete(key)
ClientDelete(p, key) ==
    /\ ClientReady(p)
    /\ LET del == RedisDelete(store, key, redisUp)
       IN  /\ store' = del.store
           /\ h' = [h EXCEPT ![p] =
                     ClientRec(p, IF del.raised THEN Raised(key)
                                  ELSE [cmd |-> "delete", key |-> key, value |-> None,
                                        ret |-> IF del.removed = 1 THEN "1" ELSE "0"])]
    /\ loop' = LoopAfter(p, "done")
    /\ UNCHANGED <<workerOf, redisUp>>

-----------------------------------------------------------------------------
(* Environment *)

\* The Redis server becomes unreachable, or reachable again.
RedisConnectivity ==
    /\ redisUp' = ~redisUp
    /\ UNCHANGED <<store, h, workerOf, loop>>

-----------------------------------------------------------------------------
(* Specifications *)

Init ==
    /\ store = [k \in Keys |-> None]
    /\ h = [p \in Procs |-> Idle]
    /\ workerOf = [p \in Procs |-> "w1"]
    /\ loop = [w \in Workers |-> NoProc]
    /\ redisUp = TRUE

\* One handler at a time; handshakes with full privilege lists.
Next ==
    \/ \E a \in HostInputs, o \in OrgInputs : SelfStart("p1", a, o)
    \/ \E w \in FailWires : SelfFail("p1", w)
    \/ \E w \in SelfWires(MaxPriv) : SelfResponse("p1", w)
    \/ SelfSetOrg("p1")
    \/ \E op \in ResourceOps : OpStart("p1", op)
    \/ OpReadOrg("p1")
    \/ \E w \in ResourceWires : OpResponse("p1", w)
    \/ RedisConnectivity

Spec == Init /\ [][Next]_vars

\* One handler at a time; short privilege lists, and the NMS handlers.
NextNms ==
    \/ \E a \in HostInputs, o \in OrgInputs : SelfStart("p1", a, o)
    \/ \E w \in FailWires : SelfFail("p1", w)
    \/ \E w \in SelfWires(MaxPrivNms) : SelfResponse("p1", w)
    \/ SelfSetOrg("p1")
    \/ \E op \in ResourceOps : OpStart("p1", op)
    \/ OpReadOrg("p1")
    \/ \E w \in ResourceWires : OpResponse("p1", w)
    \/ \E profile \in Profiles : set_profile("p1", profile)
    \/ get_profile("p1")
    \/ delete_profile("p1")
    \/ redirect_to_docs("p1")
    \/ RedisConnectivity

SpecNms == Init /\ [][NextNms]_vars

\* A direct user of RedisClient issuing set, get and delete commands.
NextStore ==
    \/ \E key \in StoreKeys, value \in StoreValues : ClientSet("p1", key, value)
    \/ \E key \in StoreKeys : ClientGet("p1", key)
    \/ \E key \in StoreKeys : ClientDelete("p1", key)

SpecStore == Init /\ [][NextStore]_vars

\* A handshake and a resource handler side by side.  The store holds the
\* context an earlier handshake (host omitted, org_id "A") left; the two
\* handlers run in the same worker process or in two.
InitConc ==
    /\ store = [k \in Keys |-> IF k = API_HOST THEN DefaultApiHost
                               ELSE IF k = ORG_ID THEN "A" ELSE None]
    /\ h = [p \in Procs |-> Idle]
    /\ workerOf \in {f \in [Procs -> Workers] : f["p1"] = "w1"}
    /\ loop = [w \in Workers |-> NoProc]
    /\ redisUp = TRUE

ConcHosts == {"api.eu.mist.com"}
ConcOrgs == {Omitted, "B"}
ConcOps == {"list_sites", "get_site"}
\* Answers from which an org_id other than the stored "A" is resolved.
ConcWires ==
    {w \in SelfWires(MaxPrivNms) : findlast(w.body.privileges).org_id \in {"B", "C"}}

NextConc ==
    \/ \E a \in ConcHosts, o \in ConcOrgs : SelfStart("p1", a, o)
    \/ \E w \in FailWires : SelfFail("p1", w)
    \/ \E w \in ConcWires : SelfResponse("p1", w)
    \/ SelfSetOrg("p1")
    \/ \E op \in ConcOps : OpStart("p2", op)
    \/ OpReadOrg("p2")
    \/ \E w \in ResourceWires : OpResponse("p2", w)

SpecConc == InitConc /\ [][NextConc]_vars

\* Two handshakes side by side, in the same worker process or in two.
InitRace ==
    /\ store = [k \in Keys |-> None]
    /\ h = [p \in Procs |-> Idle]
    /\ workerOf \in {f \in [Procs -> Workers] : f["p1"] = "w1"}
    /\ loop = [w \in Workers |-> NoProc]
    /\ redisUp = TRUE

RaceHosts == {Omitted, "api.eu.mist.com"}
RaceOrgs == {Omitted, "A", "B"}
RaceWires ==
    {w \in SelfWires(MaxPrivNms) :
        \A i \in 1..Len(w.body.privileges) : w.body.privileges[i].org_id \in {"B", "C"}}

NextRace ==
    \E p \in Procs :
        \/ \E a \in RaceHosts, o \in RaceOrgs : SelfStart(p, a, o)
        \/ \E w \in RaceWires : SelfResponse(p, w)
        \/ SelfSetOrg(p)

SpecRace == InitRace /\ [][NextRace]_vars

\* One handler at a time, with the scheduling the runtime provides: an
\* awaited upstream call ends (answer, refusal or timeout) and a handler that
\* can run is run.
NextLive ==
    \/ \E a \in HostInputs, o \in OrgInputs : SelfStart("p1", a, o)
    \/ \E w \in FailWires : SelfFail("p1", w)
    \/ \E w \in SelfWires(MaxPrivNms) : SelfResponse("p1", w)
    \/ SelfSetOrg("p1")
    \/ \E op \in ConcOps : OpStart("p1", op)
    \/ OpReadOrg("p1")
    \/ \E w \in ResourceWires : OpResponse("p1", w)
    \/ RedisConnectivity

SelfCallEnds ==
    \/ \E w \in FailWires : SelfFail("p1", w)
    \/ \E w \in SelfWires(MaxPrivNms) : SelfResponse("p1", w)

OpCallEnds == \E w \in ResourceWires : OpResponse("p1", w)

SpecLive ==
    /\ Init /\ [][NextLive]_vars
    /\ WF_vars(SelfCallEnds) /\ WF_vars(SelfSetOrg("p1"))
    /\ WF_vars(OpReadOrg("p1")) /\ WF_vars(OpCallEnds)

-----------------------------------------------------------------------------
(* Properties *)

\* C1: a resource handler that finds no api_host in the store (key absent or
\* empty string) issues no upstream call and, its context read completed,
\* ends with the 400 "Missing api_host" error.
C1_NoApiHostNoUpstream ==
    \A p \in Procs :
        (h[p].op \in ResourceOps /\ store[API_HOST] \in {None, ""}) =>
            /\ h[p].sent = <<>>
            /\ h[p].pc /= "await"
            /\ (h[p].pc = "done" /\ h[p].outcome /= "StoreUnavailable") =>
                    (h[p].outcome = "ContextMissing" /\ h[p].status = 400)

C1_Witness ==
    \E p \in Procs :
        /\ h[p].op = "list_inventory" /\ h[p].pc = "done"
        /\ h[p].outcome = "ContextMissing"
        /\ store[API_HOST] = "" /\ store[ORG_ID] \in OrgIds

IsLastOrgScoped(privileges, i) ==
    /\ privileges[i].scope = "org"
    /\ \A j \in (i + 1)..Len(privileges) : privileges[j].scope /= "org"

\* C2: a handshake without org_id override that returns has committed the
\* org_id of the last org-scoped privilege of the response, and commits an
\* org_id only from that entry.
C2_LastOrgScopedWins ==
    \A p \in Procs :
        (h[p].op = "get_self" /\ h[p].pc = "done" /\ h[p].outcome = "ok"
            /\ h[p].req.org_id = None) =>
            LET privileges == h[p].result.privileges
            IN  /\ \A i \in 1..Len(privileges) :
                        (IsLastOrgScoped(privileges, i) /\ privileges[i].org_id \in OrgIds) =>
                            (store[ORG_ID] = privileges[i].org_id
                                /\ h[p].wrote = <<API_HOST, ORG_ID>>)
                /\ h[p].wrote /= <<API_HOST>> =>
                        \E i \in 1..Len(privileges) :
                            /\ IsLastOrgScoped(privileges, i)
                            /\ store[ORG_ID] = privileges[i].org_id

C2_Witness ==
    \E p \in Procs :
        /\ h[p].op = "get_self" /\ h[p].pc = "done" /\ h[p].outcome = "ok"
        /\ h[p].req.org_id = None
        /\ h[p].result.privileges = <<[scope |-> "org", org_id |-> "A"],
                                      [scope |-> "site", org_id |-> "B"],
                                      [scope |-> "org", org_id |-> "C"]>>
        /\ store[ORG_ID] = "C"

HandshakeReturned(p) ==
    h[p].op = "get_self" /\ h[p].pc = "done" /\ h[p].outcome = "ok"

\* C3 as stated: a handshake that returns, called with any explicit org_id
\* string, has not scanned the privileges and the store's org_id is that string.
C3_AnyOverrideCommitted ==
    \A p \in Procs :
        (HandshakeReturned(p) /\ h[p].req.org_id /= None) =>
            (~h[p].scanned /\ store[ORG_ID] = h[p].req.org_id)

\* C3 amended: a handshake that returns, called with a non-empty explicit
\* org_id, has not scanned the privileges and has written exactly that value
\* to the store's org_id.
C3_NonEmptyOverrideCommitted ==
    \A p \in Procs :
        (HandshakeReturned(p) /\ h[p].req.org_id \notin {None, ""}) =>
            /\ ~h[p].scanned
            /\ store[ORG_ID] = h[p].req.org_id
            /\ h[p].wrote = <<API_HOST, ORG_ID>>

C3_Witness ==
    \E p \in Procs :
        /\ HandshakeReturned(p)
        /\ h[p].req.org_id = "B"
        /\ h[p].result.privileges = <<[scope |-> "org", org_id |-> "A"]>>
        /\ store[ORG_ID] = "B"

NoOrgScoped(privileges) ==
    \A i \in 1..Len(privileges) : privileges[i].scope /= "org"

\* C4 as stated: after a handshake without override whose response has no
\* org-scoped privilege returns, the store's api_host is the handshake's host
\* and the store's org_id is absent.
C4_NoOrgScopedLeavesAbsent ==
    \A p \in Procs :
        (HandshakeReturned(p) /\ h[p].req.org_id = None
            /\ NoOrgScoped(h[p].result.privileges)) =>
            (store[API_HOST] = h[p].req.api_host /\ store[ORG_ID] = None)

\* C4 amended: a handshake without override whose response has no org-scoped
\* privilege writes its host to api_host and does not write org_id, which
\* keeps the value it had (absent only if it was absent before).
C4_NoOrgScopedKeepsOrgId ==
    [][\A p \in Procs :
        (h[p].op = "get_self" /\ h[p].pc = "await" /\ h[p].req.org_id = None
            /\ h'[p].wire.kind = "http" /\ h'[p].wire.status \in 200..299
            /\ NoOrgScoped(h'[p].wire.body.privileges)) =>
            /\ h'[p].pc = "done"
            /\ store'[ORG_ID] = store[ORG_ID]
            /\ h'[p].outcome = "ok" =>
                    (store'[API_HOST] = h[p].req.api_host /\ h'[p].wrote = <<API_HOST>>)]_vars

C4_Witness ==
    \E p \in Procs :
        /\ HandshakeReturned(p) /\ h[p].req.org_id = None
        /\ h[p].result.privileges = <<[scope |-> "site", org_id |-> "B"]>>
        /\ store[API_HOST] = h[p].req.api_host
        /\ store[ORG_ID] = "A"

\* C5: a handshake whose upstream call is rejected or fails in transport ends
\* with that error and has written nothing: neither issuing the call nor
\* failing changes the store.
C5_FailedHandshakeWritesNothing ==
    [][\A p \in Procs :
        /\ (h'[p] /= h[p] /\ h'[p].op = "get_self" /\ h'[p].pc = "await") =>
                store' = store
        /\ (h[p].op = "get_self" /\ h[p].pc = "await"
                /\ h'[p].wire.kind \in {"http", "refused", "timeout"}
                /\ ~(h'[p].wire.kind = "http" /\ h'[p].wire.status \in 200..299)) =>
                /\ store' = store
                /\ h'[p].pc = "done"
                /\ h'[p].outcome \in {"UpstreamRejected", "TransportFailure"}
                /\ h'[p].wrote = <<>>]_vars

C5_Witness ==
    \E p \in Procs :
        /\ h[p].op = "get_self" /\ h[p].pc = "done"
        /\ h[p].outcome = "TransportFailure"
        /\ h[p].req.api_host = DefaultApiHost
        /\ store[API_HOST] = "api.eu.mist.com" /\ store[ORG_ID] = "C"

\* C6: after a handshake that wrote api_host = h and org_id = o returns, the
\* context accessors read back exactly h and o.
C6_ContextRoundTrip ==
    \A p \in Procs :
        (HandshakeReturned(p) /\ h[p].wrote = <<API_HOST, ORG_ID>>) =>
            /\ get_api_host(store, TRUE).value = h[p].req.api_host
            /\ get_org_id(store, TRUE).value = h[p].org_id

C6_Witness ==
    \E p \in Procs :
        /\ HandshakeReturned(p) /\ h[p].wrote = <<API_HOST, ORG_ID>>
        /\ h[p].req.api_host = DefaultApiHost /\ h[p].org_id = "C"
        /\ get_api_host(store, TRUE).value = DefaultApiHost
        /\ get_org_id(store, TRUE).value = "C"

\* C7: only the handshake writes the session keys: no step of a resource
\* handler (whatever its outcome) or of an NMS profile handler changes the
\* store's api_host or org_id, and every step that changes one of them is a
\* step of get_self.
C7_OnlyHandshakeWritesSession ==
    [][\A p \in Procs :
        /\ (h'[p] /= h[p] /\ h'[p].op \in ResourceOps \cup NmsOps) =>
                (store'[API_HOST] = store[API_HOST] /\ store'[ORG_ID] = store[ORG_ID])
        /\ (store'[API_HOST] /= store[API_HOST] \/ store'[ORG_ID] /= store[ORG_ID]) =>
                \E q \in Procs : h'[q] /= h[q] /\ h[q].op = "get_self"]_vars

C7_Witness ==
    \E p \in Procs :
        /\ h[p].op = "create_site" /\ h[p].pc = "done"
        /\ h[p].outcome = "TransportFailure" /\ h[p].wire.kind = "refused"
        /\ store[API_HOST] = "api.eu.mist.com" /\ store[ORG_ID] = "B"
        /\ store[NMS_KEY] /= None

\* C8: a resource handler whose context read meets an unreachable Redis ends
\* with the connection error, not with the 400 of a missing context, and
\* issues no upstream call.
C8_StoreUnavailableIsDistinct ==
    [][\A p \in Procs :
        (~redisUp /\ h'[p] /= h[p] /\ h'[p].op \in ResourceOps /\ h[p].pc /= "await") =>
            /\ h'[p].pc = "done"
            /\ h'[p].outcome = "StoreUnavailable"
            /\ h'[p].outcome /= "ContextMissing" /\ h'[p].status /= 400
            /\ h'[p].sent = <<>>]_vars

C8_Witness ==
    \E p \in Procs :
        /\ h[p].op = "list_sites" /\ h[p].pc = "done"
        /\ h[p].outcome = "StoreUnavailable"
        /\ h[p].api_host = "api.eu.mist.com"
        /\ store[ORG_ID] = None
        /\ ~redisUp

\* C9: a resource handler whose upstream call completed ends in exactly the
\* outcome the wire determines: ok for a 2xx status, UpstreamRejected with the
\* same status for a 4xx/5xx status, TransportFailure for a refused or timed
\* out connection.
C9_ThreeOutcomes ==
    \A p \in Procs :
        (h[p].op \in ResourceOps /\ h[p].pc = "done" /\ h[p].wire /= NoWire) =>
            /\ h[p].outcome \in {"ok", "UpstreamRejected", "TransportFailure"}
            /\ h[p].outcome = "ok" <=>
                    (h[p].wire.kind = "http" /\ h[p].wire.status \in 200..299)
            /\ h[p].outcome = "UpstreamRejected" <=>
                    (h[p].wire.kind = "http" /\ h[p].wire.status \in 400..599)
            /\ h[p].outcome = "UpstreamRejected" => h[p].status = h[p].wire.status
            /\ h[p].outcome = "TransportFailure" <=> h[p].wire.kind \in {"refused", "timeout"}

C9_Witness ==
    \E p \in Procs :
        /\ h[p].op = "get_site" /\ h[p].pc = "done"
        /\ h[p].wire = [kind |-> "http", status |-> 404, body |-> "detail"]
        /\ h[p].outcome = "UpstreamRejected" /\ h[p].status = 404

\* C10: no handler issues more than one upstream call; a handshake and a
\* resource handler past its guard have issued exactly one, whatever the
\* call's outcome, and a handler stopped by its guard or by Redis none.
C10_ExactlyOneCall ==
    \A p \in Procs :
        /\ Len(h[p].sent) <= 1
        /\ h[p].op = "get_self" => Len(h[p].sent) = 1
        /\ (h[p].op \in ResourceOps /\ h[p].pc = "await") => Len(h[p].sent) = 1
        /\ (h[p].op \in ResourceOps /\ h[p].pc = "done") =>
                (Len(h[p].sent) = 1 <=>
                    h[p].outcome \in {"ok", "UpstreamRejected", "TransportFailure"})
        /\ h[p].wire /= NoWire => (h[p].pc /= "await" /\ Len(h[p].sent) = 1)

C10_Witness ==
    \E p \in Procs :
        /\ h[p].op = "claim_devices" /\ h[p].pc = "done"
        /\ h[p].outcome = "TransportFailure" /\ h[p].wire.kind = "timeout"
        /\ Len(h[p].sent) = 1

\* The value the commands of log[1..n] leave under key: that of the last set
\* or delete of the key, absent after a delete or with neither.
RECURSIVE LastWritten(_, _, _)
LastWritten(log, n, key) ==
    IF n = 0 THEN None
    ELSE IF log[n].key = key /\ log[n].cmd = "set" THEN log[n].value
    ELSE IF log[n].key = key /\ log[n].cmd = "delete" THEN None
    ELSE LastWritten(log, n - 1, key)

\* C11: every get returns the value of the most recent set of its key not
\* followed by a delete of it, absent if there is none; a delete succeeds
\* whether or not the key is present; and after any command sequence each key
\* holds its last written value, so a delete of an absent key changes nothing.
C11_LastWriteWins ==
    \A p \in Procs :
        h[p].op = "client" =>
            /\ \A n \in 1..Len(h[p].log) :
                    /\ h[p].log[n].cmd = "get" =>
                            h[p].log[n].ret = LastWritten(h[p].log, n - 1, h[p].log[n].key)
                    /\ h[p].log[n].cmd = "delete" =>
                            h[p].log[n].ret =
                                (IF LastWritten(h[p].log, n - 1, h[p].log[n].key) = None
                                 THEN "0" ELSE "1")
            /\ \A key \in StoreKeys : store[key] = LastWritten(h[p].log, Len(h[p].log), key)

C11_Witness ==
    \E p \in Procs :
        /\ h[p].op = "client" /\ Len(h[p].log) = 4
        /\ h[p].log[1] = [cmd |-> "set", key |-> ORG_ID, value |-> "", ret |-> "True"]
        /\ h[p].log[2] = [cmd |-> "set", key |-> ORG_ID, value |-> "v", ret |-> "True"]
        /\ h[p].log[3] = [cmd |-> "delete", key |-> API_HOST, value |-> None, ret |-> "0"]
        /\ h[p].log[4] = [cmd |-> "get", key |-> ORG_ID, value |-> None, ret |-> "v"]

\* The 2xx response to GET /api/v1/self arrives at handler p in this step.
SelfResponseArrives(p) ==
    /\ h[p].op = "get_self" /\ h[p].pc = "await"
    /\ h'[p].wire.kind = "http" /\ h'[p].wire.status \in 200..299

C13_PayloadPassThrough ==
    \A p \in Procs : HandshakeReturned(p) => h[p].ret = h[p].wire.body

C13_Witness ==
    \E p \in Procs :
        /\ HandshakeReturned(p)
        /\ h[p].given.org_id = "A" /\ h[p].wrote = <<API_HOST, ORG_ID>>
        /\ h[p].wire.body.privileges = <<[scope |-> "org", org_id |-> "B"],
                                         [scope |-> "site", org_id |-> "B"]>>
        /\ h[p].ret = h[p].wire.body

\* C14: the store starts without org_id, and every step that changes the
\* store's org_id is a step of a handshake and sets it to that handshake's
\* override or to the org_id of an org-scoped privilege of its response.
C14_OrgIdProvenance ==
    [][store'[ORG_ID] /= store[ORG_ID] =>
        \E p \in Procs :
            /\ h[p].op = "get_self" /\ h'[p] /= h[p]
            /\ \/ store'[ORG_ID] = h[p].given.org_id
               \/ \E i \in 1..Len(h[p].wire.body.privileges) :
                      /\ h[p].wire.body.privileges[i].scope = "org"
                      /\ h[p].wire.body.privileges[i].org_id = store'[ORG_ID]
            /\ store'[ORG_ID] \in OrgIds]_vars

C14_Witness ==
    \E p \in Procs :
        /\ HandshakeReturned(p) /\ h[p].given.org_id = Omitted
        /\ h[p].wire.body.privileges = <<[scope |-> "org", org_id |-> "C"],
                                         [scope |-> "site", org_id |-> "B"]>>
        /\ store[ORG_ID] = "C"

\* C15: an org-scoped resource handler that finds api_host but no org_id
\* (absent or empty) issues no upstream call and, its context read completed,
\* ends with the 400; a call that is issued carries the stored org_id.
C15_NoOrgIdNoUpstream ==
    \A p \in Procs :
        h[p].op \in OrgScopedOps =>
            /\ (store[API_HOST] \notin {None, ""} /\ store[ORG_ID] \in {None, ""}) =>
                    /\ h[p].sent = <<>>
                    /\ h[p].pc /= "await"
                    /\ (h[p].pc = "done" /\ h[p].outcome /= "StoreUnavailable") =>
                            (h[p].outcome = "ContextMissing" /\ h[p].status = 400)
            /\ \A i \in 1..Len(h[p].sent) :
                    h[p].sent[i].org = store[ORG_ID] /\ h[p].sent[i].org \in OrgIds

C15_Witness ==
    \E p \in Procs :
        /\ h[p].op = "create_app" /\ h[p].pc = "done"
        /\ h[p].outcome = "ContextMissing" /\ h[p].status = 400
        /\ store[API_HOST] = "api.ac2.mist.com" /\ store[ORG_ID] = None

\* C16 as stated, with DELETE /nms/ as the clear operation: once it has
\* returned, api_host and org_id are both absent from the store.
C16_ClearRemovesSession ==
    \A p \in Procs :
        (h[p].op = "delete_profile" /\ h[p].pc = "done" /\ h[p].outcome = "ok") =>
            (store[API_HOST] = None /\ store[ORG_ID] = None)

\* The org_id a handshake resolves, from what the caller gave and what the
\* upstream answered.
ExpectedOrgId(given_org_id, privileges) ==
    IF given_org_id \notin {Omitted, ""} THEN given_org_id
    ELSE IF NoOrgScoped(privileges) THEN None
    ELSE LET i == CHOOSE i \in 1..Len(privileges) : IsLastOrgScoped(privileges, i)
         IN  privileges[i].org_id

\* C17: the step with which a handshake that resolved an org_id returns
\* leaves exactly its api_host and its org_id in the store, whatever was
\* there, and no other key changed; if the store already held that pair
\* (the same handshake performed before), the store is as it was.
C17_HandshakeUpsert ==
    [][\A p \in Procs :
        (h[p].op = "get_self" /\ h[p].pc /= "done"
            /\ h'[p].pc = "done" /\ h'[p].outcome = "ok"
            /\ ExpectedOrgId(h[p].given.org_id, h'[p].wire.body.privileges) /= None) =>
            /\ store'[API_HOST] = h[p].req.api_host
            /\ store'[ORG_ID] = ExpectedOrgId(h[p].given.org_id, h'[p].wire.body.privileges)
            /\ \A key \in Keys \ {API_HOST, ORG_ID} : store'[key] = store[key]
            /\ (store[API_HOST] = store'[API_HOST] /\ store[ORG_ID] = store'[ORG_ID]) =>
                    store' = store]_vars

C17_Witness ==
    \E p \in Procs :
        /\ HandshakeReturned(p)
        /\ h[p].given = [api_host |-> "api.eu.mist.com", org_id |-> "A"]
        /\ h[p].wire.body.privileges = <<[scope |-> "org", org_id |-> "B"]>>
        /\ store[API_HOST] = "api.eu.mist.com" /\ store[ORG_ID] = "A"

\* C18: the handlers reach the store one key at a time: no step changes
\* api_host and org_id together, and a resource handler reads api_host and
\* then org_id in two steps, each returning what the store holds at that
\* step.  The torn observations this allows are the two states below: a
\* resource handler holding the api_host a handshake wrote with the org_id
\* from before it, and one holding the old api_host with the new org_id.
C18_SingleKeyAccesses ==
    [][/\ ~(store'[API_HOST] /= store[API_HOST] /\ store'[ORG_ID] /= store[ORG_ID])
       /\ \A p \in Procs :
            /\ (h[p].pc \in {"idle", "done"} /\ h'[p].op \in OrgScopedOps
                    /\ h'[p].pc = "read_org") =>
                    (h'[p].api_host = store[API_HOST] /\ store' = store)
            /\ (h[p].pc = "read_org" /\ h'[p].pc /= "read_org") =>
                    /\ h'[p].org_id = store[ORG_ID]
                    /\ h'[p].api_host = h[p].api_host
                    /\ store' = store]_vars

\* New api_host, org_id from before the handshake.
C18_Witness ==
    /\ h["p2"].op = "list_sites" /\ h["p2"].pc = "await"
    /\ h["p2"].api_host = "api.eu.mist.com" /\ h["p2"].org_id = "A"
    /\ h["p2"].sent = <<[host |-> "api.eu.mist.com", path |-> PathOf("list_sites"),
                         org |-> "A"]>>
    /\ h["p1"].op = "get_self" /\ h["p1"].pc = "done" /\ h["p1"].outcome = "ok"
    /\ store[API_HOST] = "api.eu.mist.com" /\ store[ORG_ID] = "B"
    /\ workerOf["p2"] /= workerOf["p1"]

\* Old api_host, org_id written by the handshake.
C18_WitnessStaleHost ==
    /\ h["p2"].op = "list_sites" /\ h["p2"].pc = "await"
    /\ h["p2"].api_host = DefaultApiHost /\ h["p2"].org_id = "C"
    /\ h["p1"].op = "get_self" /\ h["p1"].pc = "done" /\ h["p1"].outcome = "ok"
    /\ h["p1"].given.org_id = Omitted
    /\ store[API_HOST] = "api.eu.mist.com" /\ store[ORG_ID] = "C"
    /\ workerOf["p2"] /= workerOf["p1"]

\* C19: a get_profile that finds Redis reachable and the nms_profile key
\* absent or empty ends with 404, and no get_profile changes the store.
C19_MissingProfileIs404 ==
    [][\A p \in Procs :
        (h'[p] /= h[p] /\ h'[p].op = "get_profile") =>
            /\ store' = store
            /\ (redisUp /\ store[NMS_KEY] \in {None, ""}) =>
                    /\ h'[p].outcome = "NotFound" /\ h'[p].status = 404
                    /\ h'[p].ret = NoBody]_vars

C19_Witness ==
    \E p \in Procs :
        /\ h[p].op = "get_profile" /\ h[p].pc = "done"
        /\ h[p].outcome = "NotFound" /\ h[p].status = 404
        /\ store[NMS_KEY] = None /\ store[API_HOST] = "api.ac2.mist.com"

\* C20: set_profile stores whatever was there before and answers "saved"
\* with the profile given; the get_profile that follows it answers "found"
\* with a profile equal to it field by field; and the stored profile changes
\* only by set_profile and delete_profile.
C20_ProfileRoundTrip ==
    [][\A p \in Procs :
        /\ (h'[p] /= h[p] /\ h'[p].op = "set_profile" /\ h'[p].outcome = "ok") =>
                h'[p].ret = [status |-> "saved", profile |-> h'[p].given]
        /\ (h[p].op = "set_profile" /\ h[p].outcome = "ok"
                /\ h'[p].op = "get_profile" /\ redisUp) =>
                /\ h'[p].outcome = "ok" /\ h'[p].status = 200
                /\ h'[p].ret.status = "found"
                /\ h'[p].ret.profile.ssr1_mac = h[p].given.ssr1_mac
                /\ h'[p].ret.profile.mgmt_vlan = h[p].given.mgmt_vlan
        /\ (h'[p] /= h[p] /\ h'[p].op \notin {"set_profile", "delete_profile"}) =>
                store'[NMS_KEY] = store[NMS_KEY]]_vars

C20_Witness ==
    \E p \in Procs :
        /\ h[p].op = "get_profile" /\ h[p].pc = "done" /\ h[p].outcome = "ok"
        /\ h[p].ret = [status |-> "found",
                       profile |-> [ssr1_mac |-> None, mgmt_vlan |-> 3666]]
        /\ store[ORG_ID] = "A"

\* C21: a delete_profile that finds Redis reachable issues its one delete on
\* nms_profile and answers "deleted" whether or not a profile was stored,
\* leaves api_host and org_id as they were and nms_profile absent; the
\* get_profile that follows it ends with 404.
C21_DeleteProfile ==
    [][\A p \in Procs :
        /\ (h'[p] /= h[p] /\ h'[p].op = "delete_profile") =>
                /\ store'[API_HOST] = store[API_HOST] /\ store'[ORG_ID] = store[ORG_ID]
                /\ redisUp =>
                        /\ h'[p].outcome = "ok" /\ h'[p].status = 200
                        /\ h'[p].ret = [status |-> "deleted"]
                        /\ h'[p].wrote = <<NMS_KEY>>
                        /\ store'[NMS_KEY] = None
        /\ (h[p].op = "delete_profile" /\ h[p].outcome = "ok"
                /\ h'[p].op = "get_profile" /\ redisUp) =>
                (h'[p].outcome = "NotFound" /\ h'[p].status = 404)]_vars

C21_Witness ==
    \E p \in Procs :
        /\ h[p].op = "delete_profile" /\ h[p].pc = "done" /\ h[p].outcome = "ok"
        /\ h[p].ret = [status |-> "deleted"]
        /\ store[NMS_KEY] = None
        /\ store[API_HOST] = "api.eu.mist.com" /\ store[ORG_ID] = "B"

\* C22 as stated: GET / answers 200 with the greeting document.
C22_RootGreeting ==
    \A p \in Procs :
        (h[p].op = "redirect_to_docs" /\ h[p].pc = "done") =>
            /\ h[p].status = 200
            /\ h[p].ret = [greeting |-> "Hello, World!", message |-> "Welcome to FastAPI!"]

\* C23: a resource handler's one upstream call goes to the api_host and the
\* org_id the handler read; from the moment the call is issued, whatever a
\* handshake writes meanwhile, the handler's call and the values it read stay
\* as they are, its answer is the body received, and the step that completes
\* it leaves the store alone.
C23_PerCallSnapshot ==
    [][\A p \in Procs :
        /\ (h'[p].op \in ResourceOps /\ h'[p].sent /= <<>>) =>
                /\ Len(h'[p].sent) = 1
                /\ h'[p].sent[1].host = h'[p].api_host
                /\ h'[p].sent[1].org = h'[p].org_id
        /\ (h[p].op \in ResourceOps /\ h[p].pc = "await") =>
                /\ h'[p].sent = h[p].sent
                /\ h'[p].api_host = h[p].api_host /\ h'[p].org_id = h[p].org_id
                /\ h'[p] /= h[p] =>
                        /\ store' = store
                        /\ h'[p].pc = "done"
                        /\ (h'[p].wire.kind = "http" /\ h'[p].wire.status = 200) =>
                                (h'[p].outcome = "ok" /\ h'[p].ret = h'[p].wire.body)]_vars

\* The handshake has completed while list_sites awaits its call.
C23_Witness ==
    /\ h["p2"].op = "list_sites" /\ h["p2"].pc = "await"
    /\ h["p2"].sent = <<[host |-> DefaultApiHost, path |-> PathOf("list_sites"),
                         org |-> "A"]>>
    /\ h["p1"].op = "get_self" /\ h["p1"].pc = "done" /\ h["p1"].outcome = "ok"
    /\ h["p1"].wrote = <<API_HOST, ORG_ID>>
    /\ store[API_HOST] = "api.eu.mist.com" /\ store[ORG_ID] = "B"
    /\ workerOf["p2"] = workerOf["p1"]

\* C24: get_site, update_site and delete_site, entered with Redis reachable
\* and api_host present, issue their upstream call to that host without
\* reading org_id, whether org_id is stored or not; every other resource
\* handler that issues a call has read both a non-empty api_host and a
\* non-empty org_id.
C24_OnlyOrgScopedNeedOrgId ==
    [][\A p \in Procs :
        /\ (h[p].pc \in {"idle", "done"} /\ h'[p] /= h[p] /\ h'[p].op \in SiteScopedOps
                /\ redisUp /\ store[API_HOST] \notin {None, ""}) =>
                /\ h'[p].pc = "await"
                /\ Len(h'[p].sent) = 1 /\ h'[p].sent[1].host = store[API_HOST]
                /\ h'[p].org_id = None
        /\ (h'[p].op \in ResourceOps \ SiteScopedOps /\ h'[p].sent /= <<>>) =>
                /\ h'[p].api_host \notin {None, ""}
                /\ h'[p].org_id \notin {None, ""}]_vars

C24_Witness ==
    \E p \in Procs :
        /\ h[p].op = "update_site" /\ h[p].pc = "done" /\ h[p].outcome = "ok"
        /\ Len(h[p].sent) = 1 /\ h[p].sent[1].host = "api.eu.mist.com"
        /\ store[API_HOST] = "api.eu.mist.com" /\ store[ORG_ID] = None

\* Both handshakes have returned, each having written an org_id.
BothResolved ==
    \A p \in Procs : HandshakeReturned(p) /\ h[p].wrote = <<API_HOST, ORG_ID>>

\* The store holds the pair one handshake wrote.
PairOfOne ==
    \E p \in Procs : store[API_HOST] = h[p].req.api_host /\ store[ORG_ID] = h[p].org_id

\* C25 as stated: when two handshakes that each resolved an org_id have both
\* returned, the stored api_host and org_id are those of one of them.
C25_NeverMixed == BothResolved => PairOfOne

\* C25, amended: the same when both handshakes run in one worker process.
C25_NeverMixedInOneWorker ==
    (BothResolved /\ workerOf["p1"] = workerOf["p2"]) => PairOfOne

C25_Witness ==
    /\ BothResolved /\ workerOf["p1"] = workerOf["p2"]
    /\ h["p1"].given = [api_host |-> "api.eu.mist.com", org_id |-> "A"]
    /\ h["p2"].given = [api_host |-> Omitted, org_id |-> Omitted]
    /\ h["p2"].org_id = "C"
    /\ store[API_HOST] = "api.eu.mist.com" /\ store[ORG_ID] = "A"

Outcomes == {"ok", "ContextMissing", "StoreUnavailable", "UpstreamRejected", "TransportFailure"}

C27_HandshakeOrdering ==
    [][\A p \in Procs :
        /\ (h'[p] /= h[p] /\ h'[p].op = "get_self" /\ h'[p].pc = "await") =>
                (store' = store /\ h'[p].wrote = <<>>)
        /\ (h'[p] /= h[p] /\ h[p].op = "get_self" /\ h[p].pc = "await") =>
                /\ store'[ORG_ID] = store[ORG_ID]
                /\ h'[p].wrote \in {<<>>, <<API_HOST>>}
                /\ (store' /= store \/ h'[p].wrote /= <<>>) =>
                        /\ h'[p].wire.kind = "http" /\ h'[p].wire.status \in 200..299
                        /\ store'[API_HOST] = h[p].req.api_host
                /\ (h'[p].wire.kind = "http" /\ h'[p].wire.status \in 200..299) =>
                        LET e == ExpectedOrgId(h[p].given.org_id, h'[p].wire.body.privileges)
                        IN  IF e \in {None, ""} THEN h'[p].org_id \in {None, ""}
                            ELSE h'[p].org_id = e
        /\ (h'[p] /= h[p] /\ h[p].op = "get_self" /\ h[p].pc = "set_org") =>
                /\ h[p].wrote = <<API_HOST>>
                /\ store'[API_HOST] = store[API_HOST]
                /\ h'[p].wrote \in {<<API_HOST>>, <<API_HOST, ORG_ID>>}
                /\ h'[p].outcome = "ok" => h'[p].ret = h[p].wire.body]_vars

\* Between the two writes: the new api_host stored, the old org_id still there.
C27_Witness ==
    \E p \in Procs :
        /\ h[p].op = "get_self" /\ h[p].pc = "set_org"
        /\ h[p].wrote = <<API_HOST>> /\ h[p].org_id = "C"
        /\ store[API_HOST] = "api.eu.mist.com" /\ store[ORG_ID] = "A"

\* C28: while a handshake is between its two writes, or a resource handler
\* between its two reads, no other handler of the same worker takes a step,
\* and the handler's next step is the second access; so a resource handler in
\* the handshake's worker calls upstream with api_host and org_id of one
\* store state: the old pair or a handshake's pair, not one of each.
C28_NoInterleavingInOneWorker ==
    [][\A p \in Procs : \A q \in Procs \ {p} :
        workerOf[p] = workerOf[q] =>
            /\ (h[p].op = "get_self" /\ h[p].pc = "set_org") =>
                    /\ h'[q] = h[q]
                    /\ h'[p] /= h[p] => (h'[p].pc = "done" /\ store'[API_HOST] = store[API_HOST])
            /\ h[p].pc = "read_org" =>
                    (h'[q] = h[q] /\ store' = store)
            /\ (h'[q].op \in OrgScopedOps /\ h'[q].sent /= <<>>) =>
                    (h'[q].sent[1].host = DefaultApiHost <=> h'[q].sent[1].org = "A")]_vars

\* A handshake between its writes and a resource handler awaiting its call,
\* both in one worker.
C28_Witness ==
    /\ workerOf["p1"] = workerOf["p2"]
    /\ h["p1"].op = "get_self" /\ h["p1"].pc = "set_org" /\ h["p1"].org_id = "C"
    /\ store[API_HOST] = "api.eu.mist.com" /\ store[ORG_ID] = "A"
    /\ h["p2"].op = "list_sites" /\ h["p2"].pc = "await"
    /\ h["p2"].sent = <<[host |-> DefaultApiHost, path |-> PathOf("list_sites"),
                         org |-> "A"]>>

\* What a handshake called without org_id writes, given the response.
WritesWithoutOverride(privileges) ==
    IF ExpectedOrgId(Omitted, privileges) \in {None, ""}
    THEN <<API_HOST>> ELSE <<API_HOST, ORG_ID>>

\* C29: a handshake that returns, called with org_id "" or with none, has
\* scanned the privileges, made the writes and stored the values that follow
\* from its host and the response alone, and returned the response; the two
\* requests are told apart by nothing but the request itself.
C29_EmptyOverrideIsNoOverride ==
    \A p \in Procs :
        (HandshakeReturned(p) /\ h[p].given.org_id \in {"", Omitted}) =>
            /\ h[p].scanned
            /\ h[p].wrote = WritesWithoutOverride(h[p].wire.body.privileges)
            /\ store[API_HOST] = h[p].req.api_host
            /\ ORG_ID \in {h[p].wrote[i] : i \in 1..Len(h[p].wrote)} =>
                    store[ORG_ID] = ExpectedOrgId(Omitted, h[p].wire.body.privileges)
            /\ h[p].ret = h[p].wire.body

C29_Witness ==
    \E p \in Procs :
        /\ HandshakeReturned(p) /\ h[p].given.org_id = ""
        /\ h[p].scanned
        /\ h[p].wire.body.privileges = <<[scope |-> "site", org_id |-> "B"],
                                         [scope |-> "org", org_id |-> "C"]>>
        /\ h[p].wrote = <<API_HOST, ORG_ID>> /\ store[ORG_ID] = "C"

\* The last org-scoped privilege carries no org_id.
LastOrgScopedIsEmpty(privileges) ==
    \E i \in 1..Len(privileges) :
        IsLastOrgScoped(privileges, i) /\ privileges[i].org_id \in {None, ""}

\* C30: when the response to a handshake without override arrives and its
\* last org-scoped privilege carries no org_id, the handshake ends in that
\* step without writing org_id, which keeps its value, whatever the earlier
\* entries carry.
C30_NoFallbackToEarlierEntries ==
    [][\A p \in Procs :
        (SelfResponseArrives(p) /\ h[p].given.org_id \in {"", Omitted}
            /\ LastOrgScopedIsEmpty(h'[p].wire.body.privileges)) =>
            /\ h'[p].pc = "done"
            /\ store'[ORG_ID] = store[ORG_ID]
            /\ h'[p].wrote \in {<<>>, <<API_HOST>>}
            /\ h'[p].org_id \in {None, ""}]_vars

C30_Witness ==
    \E p \in Procs :
        /\ HandshakeReturned(p) /\ h[p].given.org_id = Omitted
        /\ h[p].wire.body.privileges = <<[scope |-> "org", org_id |-> "C"],
                                         [scope |-> "org", org_id |-> None]>>
        /\ h[p].wrote = <<API_HOST>>
        /\ store[ORG_ID] = "B"

====
